---- MODULE Spec2Model ----
(***************************************************************************)
(* Steam-table calculator (steam_calc/views.py, models.py, admin.py).      *)
(*                                                                         *)
(* State machine of one Django worker: a request arrives, the saturation   *)
(* dome is sampled, a POST is dispatched to handle_state_point or          *)
(* handle_rankine_cycle, and the context is rendered.  The IAPWS97         *)
(* property engine is an external library: each call either raises         *)
(* NotImplementedError or returns a state drawn from a finite sample.      *)
(*                                                                         *)
(* Numbers.  Python floats are modelled in fixed point, with NaN kept as a *)
(* value of its own (float("nan") parses, and every comparison with it is  *)
(* False):                                                                 *)
(*   state-point pressure p_mpa        1e-6 MPa (= Pa)                     *)
(*   Rankine pressures p_low, p_high   0.01 bar; p_*_mpa in 1e-6 MPa       *)
(*   temperatures in Kelvin            0.01 K                              *)
(*   form temperatures                 1 degree                            *)
(*   efficiencies as fractions         0.01     (percent input / 100)      *)
(*   enthalpy, work, heat              0.01 kJ/kg                          *)
(*   entropy of an engine state        1e-4 kJ/kg.K                        *)
(*   quality x                         1e-4                                *)
(*   reported efficiencies             0.01 percent                        *)
(*   dome points                       1e-3 (entropy), 1e-3 degree C       *)
(***************************************************************************)
EXTENDS Integers, Sequences, FiniteSets, TLC

VARIABLES
    pc,            \* position of the worker inside steam_calculator
    request,       \* the request being served
    context,       \* the template context (a dict: key -> value)
    locals,        \* local variables of the running handler
    exc,           \* the exception raised in the running handler, or NoExc
    lookups,       \* property-engine calls made while serving the request
    log,           \* rows of SteamQueryLog (models.py)
    liquid_line,   \* generate_saturation_dome: saturated-liquid branch
    vapor_line,    \* generate_saturation_dome: saturated-vapor branch
    t_celsius,     \* generate_saturation_dome: loop variable
    domeFails      \* engine failures seen during the current sweep

vars == <<pc, request, context, locals, exc, lookups, log,
          liquid_line, vapor_line, t_celsius, domeFails>>

handlerVars == <<request, context, locals, exc, lookups, log>>

(***************************************************************************)
(* Bounds of the model.                                                    *)
(***************************************************************************)
\* engine states are drawn from samples 0..MaxSample
MaxSample == 2
\* at most this many samples of one sweep may fail in the engine
MaxDomeFails == 3

(***************************************************************************)
(* Floats.                                                                 *)
(***************************************************************************)
Num(n) == [nan |-> FALSE, v |-> n]
NaN == [nan |-> TRUE, v |-> 0]

FLe(a, b) == ~a.nan /\ ~b.nan /\ a.v <= b.v
FGe(a, b) == ~a.nan /\ ~b.nan /\ a.v >= b.v
FGt(a, b) == ~a.nan /\ ~b.nan /\ a.v > b.v

\* one form field as submitted: absent, a string that is no number, the
\* string "nan", or a decimal numeral (v in the field's fixed-point unit)
Missing == [kind |-> "missing", v |-> 0]
Text == [kind |-> "text", v |-> 0]
NanText == [kind |-> "nan", v |-> 0]
Numeral(n) == [kind |-> "num", v |-> n]

NoExc == [type |-> "none", msg |-> "", site |-> "none"]
Raise(type, msg, site) == [type |-> type, msg |-> msg, site |-> site]

\* float(tok): None raises TypeError, a non-numeric string ValueError
Float(tok) ==
    CASE tok.kind = "missing" ->
           [ok |-> FALSE, val |-> NaN,
            exc |-> Raise("TypeError",
                          "float() argument must be a string or a real number, not 'NoneType'",
                          "float")]
      [] tok.kind = "text" ->
           [ok |-> FALSE, val |-> NaN,
            exc |-> Raise("ValueError",
                          "could not convert string to float: 'abc'", "float")]
      [] tok.kind = "nan" -> [ok |-> TRUE, val |-> NaN, exc |-> NoExc]
      [] OTHER -> [ok |-> TRUE, val |-> Num(tok.v), exc |-> NoExc]

\* request.POST.get(name, default) with a float default
GetOr(tok, default) == IF tok.kind = "missing" THEN Numeral(default) ELSE tok

\* a dict: key present
Has(d, k) == k \in DOMAIN d
\* d.update(e)
Update(d, e) == e @@ d
EmptyDict == [k \in {} |-> 0]

(***************************************************************************)
(* The property engine (iapws.IAPWS97), an external collaborator.          *)
(***************************************************************************)
\* phase tags the handlers compare against, and one they do not
Phases == {"Liquid", "Gas", "Two-phase", "Vapour"}

HOf(i) == 10000 + 3000 * i + 700 * i * i
SOf(i) == 10000 + 25000 * i
VOf(i) == 100 + 900 * i
TOf(i) == 30000 + 10000 * i

\* the states a call may return: the quality attribute is always there in the
\* two-phase region, and may or may not be there on a single-phase state
EngineStates ==
    { st \in { [h |-> HOf(i), s |-> SOf(i), v |-> VOf(i), T |-> TOf(i),
                phase |-> ph, hasX |-> hx,
                x |-> IF ph = "Liquid" THEN 0
                      ELSE IF ph = "Two-phase" THEN 2500 * (i + 1) ELSE 10000]
               : i \in 0..MaxSample, ph \in Phases, hx \in BOOLEAN }
      : st.phase = "Two-phase" => st.hasX }

OutOfBoundMsg == "Incoming out of bound"
OtherEngineMsg == "Region not implemented"
EngineFailures ==
    { Raise("NotImplementedError", OutOfBoundMsg, "engine"),
      Raise("NotImplementedError", OtherEngineMsg, "engine") }

\* "out of bound" in str(e).lower()
OutOfBound(msg) == msg = OutOfBoundMsg

(***************************************************************************)
(* generate_saturation_dome                                                *)
(***************************************************************************)
SweepStop == 374
SweepStep == 10
CriticalS == 4406
CriticalT == 373946

CriticalPoint == [x |-> CriticalS, y |-> CriticalT]

\* entropy of the saturated state the engine returns at t_celsius and quality x
SatS(t, x) == IF x = 0 THEN 11 * t ELSE 9155 - 12 * t

\* what one pass of the loop body may meet
DomeOutcomes == {"ok", "liquid_raises", "vapor_raises"}

\* the loop body: both engine calls come before both appends, and the bare
\* except swallows whatever either call raises
SampleStepLiquidFirst(lines, t, outcome) ==
    CASE outcome = "ok" ->
           [liquid |-> Append(lines.liquid, [x |-> SatS(t, 0), y |-> 1000 * t]),
            vapor |-> Append(lines.vapor, [x |-> SatS(t, 1), y |-> 1000 * t])]
      [] outcome = "vapor_raises" ->
           [liquid |-> Append(lines.liquid, [x |-> SatS(t, 0), y |-> 1000 * t]),
            vapor |-> lines.vapor]
      [] OTHER -> lines

SampleStep(lines, t, outcome) ==
    IF outcome = "ok"
    THEN [liquid |-> Append(lines.liquid, [x |-> SatS(t, 0), y |-> 1000 * t]),
          vapor |-> Append(lines.vapor, [x |-> SatS(t, 1), y |-> 1000 * t])]
    ELSE lines

\* lines 22-26: the critical point closes both branches
CloseDome(lines) ==
    [liquid |-> Append(lines.liquid, CriticalPoint),
     vapor |-> Append(lines.vapor, CriticalPoint)]

RECURSIVE Sweep(_, _, _)
Sweep(t, lines, failing) ==
    IF t >= SweepStop THEN lines
    ELSE Sweep(t + SweepStep,
               SampleStep(lines, t, IF t \in failing THEN "liquid_raises" ELSE "ok"),
               failing)

\* the whole function, the engine failing on the samples in `failing`
GenerateSaturationDome(failing) ==
    CloseDome(Sweep(0, [liquid |-> <<>>, vapor |-> <<>>], failing))

\* one pass of the for loop
DomeSample ==
    /\ pc = "dome"
    /\ t_celsius < SweepStop
    /\ \E outcome \in DomeOutcomes :
         /\ outcome # "ok" => domeFails < MaxDomeFails
         /\ LET lines == SampleStep([liquid |-> liquid_line, vapor |-> vapor_line],
                                    t_celsius, outcome)
            IN /\ liquid_line' = lines.liquid
               /\ vapor_line' = lines.vapor
         /\ domeFails' = IF outcome = "ok" THEN domeFails ELSE domeFails + 1
    /\ t_celsius' = t_celsius + SweepStep
    /\ UNCHANGED <<pc, handlerVars>>

\* the loop is over: append the critical point and return
DomeReturn ==
    /\ pc = "dome"
    /\ t_celsius >= SweepStop
    /\ LET lines == CloseDome([liquid |-> liquid_line, vapor |-> vapor_line])
       IN /\ liquid_line' = lines.liquid
          /\ vapor_line' = lines.vapor
    /\ pc' = "dome_done"
    /\ UNCHANGED <<t_celsius, domeFails, handlerVars>>

(***************************************************************************)
(* steam_calculator: requests                                              *)
(***************************************************************************)
FieldNames == {"pressure", "temperature", "p_cond", "p_boiler", "t_boiler",
               "pump_eff", "turbine_eff"}
NoFields == [f \in FieldNames |-> Missing]

\* state-point forms: pressure and temperature in whole units
StateForms ==
    { [ NoFields EXCEPT !["pressure"] = p, !["temperature"] = t ]
      : p \in {Missing, Text, Numeral(2)}, t \in {Missing, Text, Numeral(150)} }
PUnits == {"bar", "pa", "atm", "psi"}
TUnits == {"c", "k", "f"}

\* cycle forms: pressures in 0.01 bar, temperature in degrees C, efficiencies
\* in whole percent
RankineForms ==
    { [ NoFields EXCEPT !["p_cond"] = pl, !["p_boiler"] = ph, !["t_boiler"] = th,
                        !["pump_eff"] = pe, !["turbine_eff"] = te ]
      : pl \in {Missing, Text, Numeral(2000)},
        ph \in {Missing, Numeral(2000)},
        th \in {Missing, Text},
        pe \in {Missing, Text, NanText, Numeral(0)},
        te \in {Missing, Numeral(150), Numeral(-5)} }

Requests ==
    { [method |-> "GET", mode |-> "missing", p_unit |-> "bar", t_unit |-> "c",
       form |-> NoFields] }
    \cup { [method |-> "POST", mode |-> m, p_unit |-> pu, t_unit |-> tu, form |-> f]
           : m \in {"missing", "state_point"}, pu \in PUnits, tu \in TUnits,
             f \in StateForms }
    \cup { [method |-> "POST", mode |-> "rankine_cycle", p_unit |-> "bar",
            t_unit |-> "c", form |-> f] : f \in RankineForms }

\* the engine failures a sweep run inside a request may meet
RequestSweeps == { {}, {0} }

\* lines 28-46 up to the handler call: a fresh context, the dome, the dispatch
SteamCalculator(req, failing) ==
    /\ pc = "idle"
    /\ request' = req
    /\ LET lines == GenerateSaturationDome(failing)
       IN /\ liquid_line' = lines.liquid
          /\ vapor_line' = lines.vapor
    /\ locals' = EmptyDict
    /\ exc' = NoExc
    /\ lookups' = <<>>
    /\ IF req.method = "POST"
       THEN IF req.mode = "rankine_cycle"
            THEN /\ context' = ("active_mode" :> "rankine")
                 /\ pc' = "rankine"
            ELSE /\ context' = ("active_mode" :> "state")
                 /\ pc' = "state"
       ELSE /\ context' = EmptyDict
            /\ pc' = "done"
    /\ UNCHANGED <<log, t_celsius, domeFails>>

(***************************************************************************)
(* handle_state_point                                                      *)
(***************************************************************************)
RangeTextState ==
    "The provided temperature and pressure exceed the valid limits of the IAPWS-97 steam tables. Please enter physically realistic values."
UnexpectedTextState ==
    "An unexpected calculation error occurred. Verify your inputs."

\* lines 108-116: the message an exception is turned into
StatePointError(e) ==
    IF e.type = "NotImplementedError"
    THEN IF OutOfBound(e.msg) THEN RangeTextState
         ELSE "Thermodynamic error: " \o e.msg
    ELSE IF e.type = "ValueError" THEN "Input Error: " \o e.msg
    ELSE UnexpectedTextState

\* lines 59-65: no branch for another unit, p_mpa stays unbound
ConvertPressure(p_val, p_unit) ==
    CASE p_unit = "bar" -> [bound |-> TRUE, val |-> 100000 * p_val]
      [] p_unit = "pa" -> [bound |-> TRUE, val |-> p_val]
      [] p_unit = "atm" -> [bound |-> TRUE, val |-> 101325 * p_val]
      [] OTHER -> [bound |-> FALSE, val |-> 0]

\* lines 67-71: every unit but 'c' is taken as Kelvin
ConvertTemperature(t_val, t_unit) ==
    IF t_unit = "c" THEN 100 * t_val + 27315 ELSE 100 * t_val

\* the handler ends in an except clause
StatePointFails(e) ==
    /\ exc' = e
    /\ context' = Update(context, "error" :> StatePointError(e))
    /\ locals' = EmptyDict
    /\ pc' = "done"

\* lines 50-71
StatePointConvert ==
    /\ pc = "state"
    /\ LET p == Float(request.form["pressure"])
           t == Float(request.form["temperature"])
       IN IF ~p.ok THEN StatePointFails(p.exc)
          ELSE IF ~t.ok THEN StatePointFails(t.exc)
          ELSE LET p_mpa == ConvertPressure(p.val.v, request.p_unit)
                   t_k == ConvertTemperature(t.val.v, request.t_unit)
               IN /\ locals' = ("p_val" :> p.val.v) @@ ("t_val" :> t.val.v)
                               @@ ("t_k" :> t_k)
                               @@ (IF p_mpa.bound THEN "p_mpa" :> p_mpa.val
                                   ELSE EmptyDict)
                  /\ pc' = "state_lookup"
                  /\ UNCHANGED <<exc, context>>
    /\ UNCHANGED <<request, lookups, log, liquid_line, vapor_line, t_celsius, domeFails>>

\* lines 87-95: the label and the quality reported for a phase tag
Classify(steam) ==
    CASE steam.phase = "Liquid" ->
           ("state" :> "Compressed Liquid") @@ ("x" :> [text |-> "0"])
      [] steam.phase = "Gas" ->
           ("state" :> "Superheated Steam") @@ ("x" :> [text |-> "1"])
      [] steam.phase = "Two-phase" ->
           ("state" :> "Wet Steam") @@ ("x" :> [num |-> steam.x])
      [] OTHER -> EmptyDict

\* lines 76-85
StatePointResult(steam) ==
    [success |-> TRUE, p |-> locals["p_val"], t |-> locals["t_val"],
     p_unit |-> request.p_unit, t_unit |-> request.t_unit,
     h |-> steam.h, s |-> steam.s, v |-> steam.v,
     point_s |-> steam.s, point_t |-> locals["t_k"] - 27315]

\* the call of line 74, logged with the phase tag of the state it returned
StatePointCall(answer) ==
    [by |-> "PT", P |-> locals["p_mpa"], T |-> locals["t_k"], phase |-> answer]

\* lines 74-97
StatePointLookup ==
    /\ pc = "state_lookup"
    /\ IF ~Has(locals, "p_mpa")
       THEN /\ StatePointFails(Raise("UnboundLocalError",
                     "cannot access local variable 'p_mpa' where it is not associated with a value", "p_mpa"))
            /\ UNCHANGED lookups
       ELSE \/ \E e \in EngineFailures :
                 /\ lookups' = Append(lookups, StatePointCall("raised"))
                 /\ StatePointFails(e)
            \/ \E steam \in EngineStates :
                    /\ lookups' = Append(lookups, StatePointCall(steam.phase))
                    /\ context' = Update(context, Classify(steam) @@ StatePointResult(steam))
                    /\ exc' = NoExc
                    /\ IF steam.phase = "Two-phase"
                       THEN /\ locals' = ("intermediate_data" :> <<>>) @@ locals
                            /\ pc' = "state_samples"
                       ELSE /\ locals' = EmptyDict
                            /\ pc' = "done"
    /\ UNCHANGED <<request, log, liquid_line, vapor_line, t_celsius, domeFails>>

\* line 98: the qualities sampled along the tie line
SampleQualities == <<2000, 4000, 6000, 8000>>

\* lines 98-106: one pass of the loop, and the assignment that follows the last
StatePointSample ==
    /\ pc = "state_samples"
    /\ LET done == locals["intermediate_data"]
           ix == SampleQualities[Len(done) + 1]
       IN /\ lookups' = Append(lookups, [by |-> "Px", P |-> locals["p_mpa"], x |-> ix])
          /\ \/ \E e \in EngineFailures :
                  StatePointFails(e)
             \/ \E int_steam \in EngineStates :
                  LET data == Append(done, [x |-> ix, h |-> int_steam.h,
                                            s |-> int_steam.s, v |-> int_steam.v])
                  IN /\ exc' = NoExc
                     /\ IF Len(data) = Len(SampleQualities)
                        THEN /\ context' = Update(context, "intermediate_data" :> data)
                             /\ locals' = EmptyDict
                             /\ pc' = "done"
                        ELSE /\ context' = context
                             /\ locals' = [locals EXCEPT !["intermediate_data"] = data]
                             /\ pc' = "state_samples"
    /\ UNCHANGED <<request, log, liquid_line, vapor_line, t_celsius, domeFails>>

(***************************************************************************)
(* handle_rankine_cycle                                                    *)
(***************************************************************************)
PhysicsText ==
    "Physics Violation: Boiler pressure must be strictly greater than Condenser pressure."
EfficiencyText == "Efficiencies must be between 1% and 100%."
RangeTextRankine ==
    "The provided parameters exceed the valid limits of the IAPWS-97 formulations. Please verify that your Boiler Temperature isn't impossibly high or low."
UnexpectedTextRankine ==
    "An unexpected error occurred. Please ensure all inputs are valid numbers."

\* lines 222-230
RankineError(e) ==
    IF e.type = "NotImplementedError"
    THEN IF OutOfBound(e.msg) THEN RangeTextRankine
         ELSE "Thermodynamic error: " \o e.msg
    ELSE IF e.type = "ValueError" THEN e.msg
    ELSE UnexpectedTextRankine

RankineFails(e) ==
    /\ exc' = e
    /\ context' = Update(context, "error" :> RankineError(e))
    /\ locals' = EmptyDict
    /\ pc' = "done"

\* the defaults of lines 123-127, in the fields' units
DefaultPCond == 5
DefaultPBoiler == 1000
DefaultTBoiler == 450
DefaultEff == 85

\* 1.0 as an efficiency fraction
One == 100

\* float(...) / 100: whole percent to a fraction in hundredths
PercentToFraction(f) == IF f.nan THEN NaN ELSE Num((f.v * One) \div 100)

\* lines 189-190: pump_eff * 100, the fraction back to whole percent
FractionToPercent(e) == IF e.nan THEN NaN ELSE Num((e.v * 100) \div One)

\* line 130
PhysicsViolatedStrict(p_low, p_high) == FGt(p_low, p_high)

PhysicsViolated(p_low, p_high) == FGe(p_low, p_high)

\* line 132
EfficiencyInvalid(pump_eff, turbine_eff) ==
    \/ FLe(pump_eff, Num(0))
    \/ FLe(turbine_eff, Num(0))
    \/ FGt(pump_eff, Num(One))
    \/ FGt(turbine_eff, Num(One))

\* the first of the five conversions of lines 123-127 that raises, if any
FirstFailure(fs) ==
    IF \E i \in 1..Len(fs) : ~fs[i].ok
    THEN fs[CHOOSE i \in 1..Len(fs) : ~fs[i].ok /\ \A j \in 1..(i - 1) : fs[j].ok].exc
    ELSE NoExc

\* lines 121-138
RankineCheck ==
    /\ pc = "rankine"
    /\ LET f == request.form
           pl == Float(GetOr(f["p_cond"], DefaultPCond))
           ph == Float(GetOr(f["p_boiler"], DefaultPBoiler))
           th == Float(GetOr(f["t_boiler"], DefaultTBoiler))
           pe == Float(GetOr(f["pump_eff"], DefaultEff))
           te == Float(GetOr(f["turbine_eff"], DefaultEff))
           bad == FirstFailure(<<pl, ph, th, pe, te>>)
           pump_eff == PercentToFraction(pe.val)
           turbine_eff == PercentToFraction(te.val)
       IN IF bad # NoExc THEN RankineFails(bad)
          ELSE IF PhysicsViolated(pl.val, ph.val)
          THEN RankineFails(Raise("ValueError", PhysicsText, "physics"))
              
          ELSE IF EfficiencyInvalid(pump_eff, turbine_eff)
          THEN RankineFails(Raise("ValueError", EfficiencyText, "efficiency"))
              
          ELSE /\ locals' = [p_low |-> pl.val, p_high |-> ph.val, t_high |-> th.val,
                             pump_eff |-> pump_eff, turbine_eff |-> turbine_eff,
                             p_low_mpa |-> 1000 * pl.val.v,
                             p_high_mpa |-> 1000 * ph.val.v,
                             t_high_k |-> 100 * th.val.v + 27315]
               /\ pc' = "rankine_state1"
               /\ UNCHANGED <<exc, context>>
    /\ UNCHANGED <<request, lookups, log, liquid_line, vapor_line, t_celsius, domeFails>>

\* what the handler reads of a saturated-liquid state, and of a resolved state
KeepSaturated(st, P) == [P |-> P, T |-> st.T, h |-> st.h, s |-> st.s]
KeepResolved(st, P) ==
    [P |-> P, T |-> st.T, h |-> st.h, s |-> st.s, phase |-> st.phase,
     hasX |-> st.hasX, x |-> st.x]

Kept(name, st, P) ==
    IF name = "state1" THEN KeepSaturated(st, P) ELSE KeepResolved(st, P)

\* one engine call of the cycle: it raises, or the handler goes on at `next`
\* with the result bound to `name`.  The engine answers with the pressure it
\* was called at.
CycleLookup(at, call, name, next) ==
    /\ pc = at
    /\ lookups' = Append(lookups, call)
    /\ \/ \E e \in EngineFailures : RankineFails(e)
       \/ \E st \in EngineStates :
            /\ locals' = (name :> Kept(name, st, call.P)) @@ locals
            /\ pc' = next
            /\ UNCHANGED <<exc, context>>
    /\ UNCHANGED <<request, log, liquid_line, vapor_line, t_celsius, domeFails>>

\* an ideal (isentropic) reference state: its enthalpy enters only the argument
\* of the next call (h2_actual, h4_actual), and the engine's answer to that
\* call is drawn whatever the argument, so nothing of it is kept
IdealLookup(at, call, next) ==
    /\ pc = at
    /\ lookups' = Append(lookups, call)
    /\ \/ \E e \in EngineFailures : RankineFails(e)
       \/ /\ pc' = next
          /\ UNCHANGED <<exc, context, locals>>
    /\ UNCHANGED <<request, log, liquid_line, vapor_line, t_celsius, domeFails>>

\* line 141
RankineState1 ==
    CycleLookup("rankine_state1", [by |-> "Px", P |-> locals["p_low_mpa"], x |-> 0],
                "state1", "rankine_state2s")

\* line 144
RankineState2s ==
    IdealLookup("rankine_state2s", [by |-> "Ps", P |-> locals["p_high_mpa"]],
                "rankine_state2")

\* lines 147-148
RankineState2 ==
    CycleLookup("rankine_state2", [by |-> "Ph", P |-> locals["p_high_mpa"]],
                "state2", "rankine_state3")

\* line 152
RankineState3 ==
    CycleLookup("rankine_state3",
                [by |-> "PT", P |-> locals["p_high_mpa"], T |-> locals["t_high_k"]],
                "state3", "rankine_state4s")

\* line 155
RankineState4s ==
    IdealLookup("rankine_state4s", [by |-> "Ps", P |-> locals["p_low_mpa"]],
                "rankine_state4")

\* round(a / b, .) on the fixed-point grid, b > 0: to nearest, ties to even
RoundDiv(a, b) ==
    LET q == a \div b
        r == a % b
    IN IF 2 * r < b THEN q
       ELSE IF 2 * r > b THEN q + 1
       ELSE IF q % 2 = 0 THEN q ELSE q + 1

\* line 166, in 0.01 percent
ThermalEfficiencyUnguarded(w_net, q_in) ==
    IF q_in > 0 THEN RoundDiv(10000 * w_net, q_in)
    ELSE IF q_in < 0 THEN RoundDiv(-10000 * w_net, -q_in)
    ELSE 0

ThermalEfficiency(w_net, q_in) ==
    IF q_in > 0 THEN RoundDiv(10000 * w_net, q_in) ELSE 0

\* lines 169-171, in 0.01 percent
CarnotEfficiency(t_high_abs, t_low_abs) ==
    RoundDiv(10000 * (t_high_abs - t_low_abs), t_high_abs)

\* lines 199 and 211: hasattr decides, the phase is not looked at
QualityOrNA(st) == IF st.hasX THEN [num |-> st.x] ELSE [text |-> "N/A"]

\* lines 191-213: a reported state
ReportState(st, x, phase) ==
    [p |-> st.P \div 1000, T |-> st.T - 27315, h |-> st.h, s |-> st.s,
     x |-> x, phase |-> phase]

\* lines 174-180
CyclePoints(s1, s2, s3, s4) ==
    << [x |-> s1.s, y |-> s1.T - 27315, label |-> "State 1"],
       [x |-> s2.s, y |-> s2.T - 27315, label |-> "State 2"],
       [x |-> s3.s, y |-> s3.T - 27315, label |-> "State 3"],
       [x |-> s4.s, y |-> s4.T - 27315, label |-> "State 4"],
       [x |-> s1.s, y |-> s1.T - 27315, label |-> "State 1"] >>

\* lines 161-220
RankineResult(l, state4) ==
    LET state1 == l["state1"]
        state2 == l["state2"]
        state3 == l["state3"]
        w_pump == state2.h - state1.h
        q_in == state3.h - state2.h
        w_turbine == state3.h - state4.h
        w_net == w_turbine - w_pump
    IN [success |-> TRUE, rankine_cycle |-> TRUE,
        cycle_points |-> CyclePoints(state1, state2, state3, state4),
        p_low |-> l["p_low"], p_high |-> l["p_high"], t_high |-> l["t_high"],
        pump_eff |-> FractionToPercent(l["pump_eff"]),
        turbine_eff |-> FractionToPercent(l["turbine_eff"]),
        state1 |-> ReportState(state1, [text |-> "0 (sat. liquid)"], "Saturated Liquid"),
        state2 |-> ReportState(state2, QualityOrNA(state2), state2.phase),
        state3 |-> ReportState(state3,
                               IF state3.phase = "Gas" THEN [text |-> "1 (sat. vapor)"]
                               ELSE [num |-> state3.x],
                               "Superheated Steam"),
        state4 |-> ReportState(state4, QualityOrNA(state4), state4.phase),
        w_pump |-> w_pump, q_in |-> q_in, w_turbine |-> w_turbine, w_net |-> w_net,
        efficiency |-> ThermalEfficiency(w_net, q_in),
        carnot_eff |-> CarnotEfficiency(l["t_high"].v * 100 + 27315, state1.T)]

\* lines 158-220: the last call, the cycle arithmetic and the context update
RankineState4 ==
    /\ pc = "rankine_state4"
    /\ lookups' = Append(lookups, [by |-> "Ph", P |-> locals["p_low_mpa"]])
    /\ \/ \E e \in EngineFailures : RankineFails(e)
       \/ \E st \in EngineStates :
            LET state4 == KeepResolved(st, locals["p_low_mpa"])
                state3 == locals["state3"]
            IN IF state3.phase # "Gas" /\ ~state3.hasX
               THEN RankineFails(Raise("AttributeError",
                        "'IAPWS97' object has no attribute 'x'", "state3.x"))
               ELSE /\ context' = Update(context, RankineResult(locals, state4))
                    /\ locals' = EmptyDict
                    /\ pc' = "done"
                    /\ exc' = NoExc
    /\ UNCHANGED <<request, log, liquid_line, vapor_line, t_celsius, domeFails>>

(***************************************************************************)
(* The specifications                                                      *)
(***************************************************************************)
Init ==
    /\ pc = "idle"
    /\ request = EmptyDict
    /\ context = EmptyDict
    /\ locals = EmptyDict
    /\ exc = NoExc
    /\ lookups = <<>>
    /\ log = <<>>
    /\ liquid_line = <<>>
    /\ vapor_line = <<>>
    /\ t_celsius = 0
    /\ domeFails = 0

\* line 46: the response is rendered from the context and the worker is free
\* again; the context and the dome lines are per request
Render ==
    /\ pc = "done"
    /\ pc' = "idle"
    /\ request' = EmptyDict
    /\ context' = EmptyDict
    /\ exc' = NoExc
    /\ lookups' = <<>>
    /\ liquid_line' = <<>>
    /\ vapor_line' = <<>>
    /\ UNCHANGED <<locals, log, t_celsius, domeFails>>

Serve == \E req \in Requests, failing \in RequestSweeps : SteamCalculator(req, failing)

Next ==
    \/ Serve
    \/ Render
    \/ StatePointConvert
    \/ StatePointLookup
    \/ StatePointSample
    \/ RankineCheck
    \/ RankineState1
    \/ RankineState2s
    \/ RankineState2
    \/ RankineState3
    \/ RankineState4s
    \/ RankineState4

Spec == Init /\ [][Next]_vars

InitDome ==
    /\ pc = "dome"
    /\ request = EmptyDict
    /\ context = EmptyDict
    /\ locals = EmptyDict
    /\ exc = NoExc
    /\ lookups = <<>>
    /\ log = <<>>
    /\ liquid_line = <<>>
    /\ vapor_line = <<>>
    /\ t_celsius = 0
    /\ domeFails = 0

NextDome == DomeSample \/ DomeReturn

SpecDome == InitDome /\ [][NextDome]_vars

(***************************************************************************)
(* Vocabulary of the properties                                            *)
(***************************************************************************)
Attempt == pc = "done" /\ Has(request, "method") /\ request.method = "POST"
StateAttempt == Attempt /\ request.mode # "rankine_cycle"
RankineAttempt == Attempt /\ request.mode = "rankine_cycle"
Succeeded == Has(context, "success")
Errored == Has(context, "error")

\* the numeric fields as the handlers read them
PressureIn == Float(request.form["pressure"])
TemperatureIn == Float(request.form["temperature"])
PCondIn == Float(GetOr(request.form["p_cond"], DefaultPCond))
PBoilerIn == Float(GetOr(request.form["p_boiler"], DefaultPBoiler))
TBoilerIn == Float(GetOr(request.form["t_boiler"], DefaultTBoiler))
PumpEffIn == Float(GetOr(request.form["pump_eff"], DefaultEff))
TurbineEffIn == Float(GetOr(request.form["turbine_eff"], DefaultEff))
CycleFieldsParse ==
    PCondIn.ok /\ PBoilerIn.ok /\ TBoilerIn.ok /\ PumpEffIn.ok /\ TurbineEffIn.ok

CycleResultKeys ==
    {"success", "rankine_cycle", "cycle_points", "state1", "state2", "state3",
     "state4", "w_pump", "q_in", "w_turbine", "w_net", "efficiency", "carnot_eff"}

\* an efficiency fraction in (0, 1]
InUnitInterval(e) == ~e.nan /\ 0 < e.v /\ e.v <= One

(***************************************************************************)
(* C1.  Every computation attempt (a POST), successful or failed, appends  *)
(* exactly one row to the audit store, whose is_valid flag is the          *)
(* attempt's outcome, and leaves the rows already there as they are.       *)
(***************************************************************************)
C1_AttemptAppendsOneLogEntry ==
    [][ (pc # "done" /\ pc' = "done" /\ request'.method = "POST")
        => /\ Len(log') = Len(log) + 1
           /\ SubSeq(log', 1, Len(log)) = log
           /\ log'[Len(log')].is_valid = ~Has(context', "error") ]_vars

(***************************************************************************)
(* C2.  In handle_state_point, with both numbers well formed, a pressure   *)
(* unit outside {bar, pa, atm} or a temperature unit outside {c, k} makes  *)
(* the attempt fail with a unit error: no success, no engine lookup, and   *)
(* an error message that is none of the other kinds' messages.             *)
(***************************************************************************)
OtherKindTexts ==
    { RangeTextState, UnexpectedTextState }
    \cup { "Thermodynamic error: " \o e.msg : e \in EngineFailures }
    \cup { "Input Error: " \o Float(t).exc.msg : t \in {Missing, Text} }

C2_UnknownUnitIsInvalidUnit ==
    ( /\ StateAttempt
      /\ PressureIn.ok /\ TemperatureIn.ok
      /\ (request.p_unit \notin {"bar", "pa", "atm"} \/ request.t_unit \notin {"c", "k"}) )
    => /\ Errored
       /\ ~Succeeded
       /\ lookups = <<>>
       /\ context["error"] \notin OtherKindTexts

(***************************************************************************)
(* C3.  In handle_rankine_cycle, every input whose condenser pressure is   *)
(* >= its boiler pressure is rejected with the PhysicsViolation message,   *)
(* before any engine lookup and without any cycle result field.            *)
(* As stated: for every input whose two pressures compare so.              *)
(***************************************************************************)
PhysicsRejection ==
    /\ Errored
    /\ context["error"] = PhysicsText
    /\ lookups = <<>>
    /\ DOMAIN context \cap CycleResultKeys = {}

C3_AnyInputCondenserGeBoilerRejected ==
    ( /\ RankineAttempt
      /\ PCondIn.ok /\ PBoilerIn.ok
      /\ FGe(PCondIn.val, PBoilerIn.val) )
    => PhysicsRejection

\* C3 as amended: for every input whose five numeric fields are all well
\* formed and whose condenser pressure is >= its boiler pressure (equality
\* included, whatever the efficiencies), the attempt is rejected with the
\* PhysicsViolation message, before any engine lookup and without any cycle
\* result field.
C3_CondenserGeBoilerRejected ==
    ( /\ RankineAttempt
      /\ CycleFieldsParse
      /\ FGe(PCondIn.val, PBoilerIn.val) )
    => PhysicsRejection

\* equal pressures and a pump efficiency of 0: the pressure check answers
C3_Witness ==
    /\ RankineAttempt
    /\ CycleFieldsParse
    /\ PCondIn.val = PBoilerIn.val
    /\ PumpEffIn.val = Num(0)
    /\ PhysicsRejection

(***************************************************************************)
(* C4.  In handle_rankine_cycle, with all five fields well formed and      *)
(* boiler pressure > condenser pressure: an efficiency <= 0 or > 1 is      *)
(* rejected with InvalidEfficiency before any engine lookup, efficiencies  *)
(* in (0, 1] pass the check, and the engine is called for a cycle state    *)
(* only with both efficiencies in (0, 1].                                  *)
(***************************************************************************)
C4_CycleOnlyWithEfficienciesInRange ==
    ( /\ Has(request, "method")
      /\ request.method = "POST" /\ request.mode = "rankine_cycle"
      /\ pc # "rankine"
      /\ CycleFieldsParse
      /\ FGt(PBoilerIn.val, PCondIn.val) )
    => LET pump_eff == PercentToFraction(PumpEffIn.val)
           turbine_eff == PercentToFraction(TurbineEffIn.val)
       IN /\ EfficiencyInvalid(pump_eff, turbine_eff)
             => (pc = "done" /\ Errored /\ context["error"] = EfficiencyText
                 /\ lookups = <<>>)
          /\ (InUnitInterval(pump_eff) /\ InUnitInterval(turbine_eff))
             => ~(Errored /\ context["error"] = EfficiencyText)
          /\ lookups # <<>>
             => (InUnitInterval(pump_eff) /\ InUnitInterval(turbine_eff))

(***************************************************************************)
(* C5.  Every successful state-point evaluation reports a label and a      *)
(* quality that agree with the phase tag the engine returned: Liquid ->    *)
(* 'Compressed Liquid', 0; Gas -> 'Superheated Steam', 1; two-phase ->     *)
(* 'Wet Steam', the engine's quality and four samples at 0.2 .. 0.8; no    *)
(* successful result is without label or quality.                          *)
(***************************************************************************)
C5_LabelAndQualityFollowPhase ==
    (StateAttempt /\ Succeeded /\ ~Errored)
    => LET phase == lookups[1].phase
       IN /\ Has(context, "state") /\ Has(context, "x")
          /\ phase = "Liquid"
             => (context["state"] = "Compressed Liquid" /\ context["x"] = [text |-> "0"])
          /\ phase = "Gas"
             => (context["state"] = "Superheated Steam" /\ context["x"] = [text |-> "1"])
          /\ phase = "Two-phase"
             => /\ context["state"] = "Wet Steam"
                /\ Has(context["x"], "num")
                /\ Has(context, "intermediate_data")
                /\ [i \in 1..Len(context["intermediate_data"])
                      |-> context["intermediate_data"][i].x] = SampleQualities

(***************************************************************************)
(* C6.  In a successful cycle result (taken here with both efficiencies   *)
(* inside (0, 1]) the quality of State 2 and of State 4 is a number only   *)
(* if the state's phase is two-phase; a single-phase state reports N/A.    *)
(***************************************************************************)
C6_QualityOnlyForTwoPhase ==
    ( /\ RankineAttempt /\ Succeeded
      /\ InUnitInterval(PercentToFraction(PumpEffIn.val))
      /\ InUnitInterval(PercentToFraction(TurbineEffIn.val)) )
    => \A k \in {"state2", "state4"} :
         IF context[k].phase = "Two-phase"
         THEN Has(context[k].x, "num")
         ELSE context[k].x = [text |-> "N/A"]

(***************************************************************************)
(* C7.  The error kind follows the cause: a missing or non-numeric numeric *)
(* field gives InputError, an engine "out of bound" failure gives the      *)
(* range guidance text, any other engine failure gives the thermodynamic   *)
(* error text.                                                             *)
(***************************************************************************)
C7_ErrorKindFollowsCause ==
    /\ ( StateAttempt /\ (~PressureIn.ok \/ ~TemperatureIn.ok) )
       => ( Errored /\ context["error"] = "Input Error: " \o exc.msg )
    /\ ( RankineAttempt /\ ~CycleFieldsParse )
       => ( Errored /\ exc.site = "float" /\ context["error"] = exc.msg )
    /\ ( Attempt /\ exc.site = "engine" )
       => /\ Errored
          /\ IF OutOfBound(exc.msg)
             THEN context["error"] \in {RangeTextState, RangeTextRankine}
             ELSE context["error"] = "Thermodynamic error: " \o exc.msg

(***************************************************************************)
(* C8.  Whatever samples fail in the engine, the two dome lines have the   *)
(* same number of points, paired index by index at the same temperature,   *)
(* in strictly increasing temperature; a failed sample is in neither line; *)
(* and on return both lines end with the critical point.                   *)
(***************************************************************************)
C8_DomeLinesPaired ==
    LET n == Len(liquid_line)
        returned == IF pc = "dome_done" THEN 1 ELSE 0
    IN /\ Len(vapor_line) = n
       /\ \A i \in 1..n : liquid_line[i].y = vapor_line[i].y
       /\ \A i \in 1..(n - 1) : liquid_line[i].y < liquid_line[i + 1].y
       /\ n = (t_celsius \div SweepStep) - domeFails + returned
       /\ pc = "dome_done"
          => (liquid_line[n] = CriticalPoint /\ vapor_line[n] = CriticalPoint)

C8_Witness ==
    /\ pc = "dome_done"
    /\ domeFails >= 1
    /\ Len(liquid_line) < (SweepStop + SweepStep - 1) \div SweepStep + 1
    /\ liquid_line[Len(liquid_line)] = CriticalPoint

(***************************************************************************)
(* C9.  In a successful cycle result, heat input q_in = h3 - h2; when      *)
(* q_in <= 0 the thermal efficiency is exactly 0, and when q_in > 0 it is  *)
(* net work / q_in (as a percentage, to the reported 0.01) with net work   *)
(* = (h3 - h4) - (h2 - h1).                                                *)
(***************************************************************************)
C9_ThermalEfficiency ==
    (RankineAttempt /\ Succeeded)
    => LET h1 == context["state1"].h
           h2 == context["state2"].h
           h3 == context["state3"].h
           h4 == context["state4"].h
           q_in == h3 - h2
           w_net == (h3 - h4) - (h2 - h1)
           err == context["efficiency"] * q_in - 10000 * w_net
       IN /\ context["q_in"] = q_in
          /\ context["w_net"] = w_net
          /\ q_in <= 0 => context["efficiency"] = 0
          /\ q_in > 0 => (2 * err <= q_in /\ -2 * err <= q_in)

\* heat input below zero with net work that is not zero
C9_Witness ==
    /\ RankineAttempt /\ Succeeded
    /\ context["q_in"] < 0
    /\ context["w_net"] # 0
    /\ context["efficiency"] = 0

(***************************************************************************)
(* C10.  After a POST attempt the context carries exactly one of the       *)
(* success flag and an error message, and a context with an error carries  *)
(* no computed field of the failed attempt.                                *)
(***************************************************************************)
C10_SuccessXorError ==
    Attempt
    => /\ Succeeded # Errored
       /\ Errored => DOMAIN context \subseteq {"active_mode", "error"}

====
